---- MODULE Spec2Model ----
(***************************************************************************)
(* A model of assets/js/main3d.js: the per-frame animation loop (stars,    *)
(* meteors, sparks, ship Z ease), the boost controller and the 10 s hold   *)
(* timer of the easter egg.                                                *)
(*                                                                         *)
(* Units.  Time is in milliseconds (the clock of the source counts         *)
(* seconds as floats; every time constant of the source is a whole number  *)
(* of milliseconds).  Meteor and ship lengths are in 1/1000 of a scene     *)
(* unit, spark radii in 1/1000 of a unit, spark opacities in 1/1000000.    *)
(* Star coordinates are in 1/5000 of a unit, so that the headings          *)
(* (3/5, 0, -4/5), ... are exact.                                          *)
(***************************************************************************)
EXTENDS Integers, Sequences, FiniteSets, TLC

VARIABLES
  now,                \* performance.now(): real time since page load, ms
  clock,              \* THREE.Clock: [running, oldTime, elapsedTime]
  frames,             \* frames rendered so far
  spaceship,          \* TRUE once the GLTF callback has set `spaceship`
  shipRot,            \* index into Rotations: spaceship.quaternion
  shipZ,              \* spaceship.position.z
  deviceLevel,        \* the device level the presets were chosen by (1..5)
  starsBuilt,         \* stars that init created
  meteorsBuilt,       \* meteors that init created
  cfg,                \* the config fields the boost rewrites
  isBoosting, meteorSpeedBackup, flameCountBackup, flameLengthBackup,
  isSwayPaused, isSpeedPaused, spaceshipTargetZ, spaceshipOriginZ,
  meteors,            \* meteorInfos: [speed, offset, lx, ly, cooldown]
  hitTimes,
  sparks,             \* the sparks list: [id, start, pos, radius, opacity]
  sceneSprites,       \* ids of the spark sprites that are in the scene
  nextSparkId,
  stars,              \* star positions and speeds: [x, y, z, speed]
  boostHoldTimer,     \* the handle kept by the hold-timer listeners
  timers,             \* pending setTimeout timers: [id, due, stale]
  nextTimerId,
  boostEasterEggTriggered,
  logoFlyAnimating, logoFlyProgress,
  logoFlyMesh,        \* TRUE while the flying logo's mesh exists
  logoFetch,          \* TRUE while startLogoFlyInAnimation awaits the SVG
  logoFlyGlow,        \* TRUE while the flying logo's glow mesh exists
  glowInScene,        \* the glow mesh is in the scene
  logoT,              \* the clamped t of the last frame that moved the flying logo
  fadeFetch,          \* TRUE while fadeInLogoOnSpaceshipTop awaits the SVG
  fade,               \* fadeInStep's `fade` in steps of 1/60/duration; Null: no fade runs
  topLogoOpacity,     \* opacity of the logo on the ship's top (1/1000000); Null: no logo
  buttonText,         \* the call-to-action button: "default" or "vip"
  \* history of the fly-in and the fade-in
  fadeStarts,         \* calls of fadeInLogoOnSpaceshipTop
  buttonMutations,    \* times the button has been rewritten
  flyFrames,          \* frames that moved the flying logo
  \* history variables, read only by the properties
  lastEvent,          \* name of the last handler that ran
  prevBoosting,       \* isBoosting before that handler ran
  boostPath,          \* input path that started the current/last boost
  cfgAtPress,         \* cfg immediately before the last press
  idleAtPress,        \* ~isBoosting immediately before the last press
  trail,              \* "press" after a press, "pressRelease" after the release that follows
  eggRuns,            \* times the easter-egg sequence has run
  eggStale,           \* the sequence was run by a timer that outlived a release
  expiries,           \* hold timers that have expired
  created,            \* every spark ever created: [id, start, pos]
  easeRun,            \* [target, frames]: the target the last frame eased the ship to and
                      \* the frames with delta > 0 that have eased to it in a row
  frameDelta,         \* delta of the last frame
  lastTriggers,       \* meteors whose collision triggered in the last frame
  starView,           \* heading and ship position animateStars used in the last frame
  speedBefore,        \* speedDisplay before the last frame
  hudEased,           \* the last frame wrote an eased random speed to the HUD
  flameRan,           \* the flame updater ran in the last frame
  \* page and loading state
  pageHidden,         \* document.hidden
  canvasInView,       \* the canvas intersects the viewport by more than 0.2
  animationPaused,
  loopRegistered,     \* renderer.setAnimationLoop holds render
  envTexture,         \* "loading", "loaded" or "failed": the await of init
  renderer,           \* TRUE once init has created the renderer
  flameCache,         \* length of flameGeometry._randomCache, or Null
  speedDisplay,
  hud,                \* the number last given to updateSpeedDisplay, or Null
  flameInScene,       \* flameParticles is in the scene (and visible)
  capsuleFlameVisible \* capsuleFlame.visible

sceneVars == <<deviceLevel, starsBuilt, meteorsBuilt>>
clockVars == <<now, clock, frames>>
shipVars == <<spaceship, shipRot, shipZ>>
boostVars == <<cfg, isBoosting, meteorSpeedBackup, flameCountBackup, flameLengthBackup,
               isSwayPaused, isSpeedPaused, spaceshipTargetZ, spaceshipOriginZ>>
meteorVars == <<meteors, hitTimes>>
sparkVars == <<sparks, sceneSprites, nextSparkId>>
timerVars == <<boostHoldTimer, timers, nextTimerId, boostEasterEggTriggered>>
pressHist == <<boostPath, cfgAtPress, idleAtPress, trail>>
logoVars == <<logoFlyAnimating, logoFlyProgress, logoFlyMesh, logoFetch, logoFlyGlow,
              glowInScene, logoT, flyFrames>>
visVars == <<pageHidden, canvasInView, animationPaused, loopRegistered>>
loadVars == <<envTexture, renderer>>
sysVars == <<visVars, loadVars, flameCache>>
hudVars == <<speedDisplay, hud>>
flameVars == <<flameInScene, capsuleFlameVisible>>
fadeVars == <<fadeFetch, fade, topLogoOpacity, buttonText, fadeStarts, buttonMutations>>
eggHist == <<eggRuns, eggStale, expiries>>
frameHist == <<frameDelta, lastTriggers, starView, speedBefore, hudEased, flameRan,
               easeRun>>
vars == <<sceneVars, clockVars, shipVars, boostVars, meteorVars, sparkVars, stars, timerVars,
          lastEvent, prevBoosting, pressHist, eggHist, logoVars, fadeVars, created,
          frameHist, sysVars, hudVars, flameVars>>

----------------------------------------------------------------------------
(* Bounds of the model *)

\* real time is followed up to MaxTime ms, and for MaxFrames frames
MaxTime == 15000
MaxFrames == 6
\* at most MaxPresses press events (each arms a timer)
MaxPresses == 2
\* at most MaxClicks canvas clicks
MaxClicks == 2

----------------------------------------------------------------------------
(* null and values *)

Null == <<>>
Some(v) == <<v>>
Abs(x) == IF x < 0 THEN -x ELSE x
Min(a, b) == IF a < b THEN a ELSE b
\* integer division rounding toward zero
Quot(a, b) == IF a >= 0 THEN a \div b ELSE -((-a) \div b)

----------------------------------------------------------------------------
(* config *)

meteorSpeedMin == 350
meteorSpeedMax == 470
flameLengthMin == 10
flameLengthMax == 30
travelDistance == 2200
baseDistance == 1100
collisionDistance == 32
meteorCooldown == 500
sparkDuration == 400
sparkMaxRadius == 100
sparkMinRadius == 10
sparkMaxOpacity == 450000
BOOST_SPEED_FACTOR == 5
BOOST_FLAME_FACTOR == 4
BOOST_EASTER_EGG_TIME == 10000
logoFlyDuration == 3000
\* let flameCount = config.flame.count, read when the script is evaluated
flameCount == 14000
initialSpeedDisplay == 1200
boostHudSpeed == 2000
maxHudSpeed == 99999
\* Math.min(1, delta * 2.5) and Math.min(1, delta * 3.5), in tenths
meteorHudRate == 25
renderHudRate == 35
\* samples of 800 + Math.random() * 900 and of 40000 + Math.random() * 80000
MeteorHudTarget == 800 + 900 \div 2
RenderHudTarget == 40000 + 80000 \div 2
\* fadeInLogoOnSpaceshipTop(1.2, ...)
fadeDuration == 1200
\* fade += 1/60/duration reaches 1 after 60 * duration steps
FadeSteps == (60 * fadeDuration) \div 1000
topLogoMaxOpacity == 980000
\* if (logoFlyProgress >= 1.3)
LogoFlyEnd == (logoFlyDuration * 13) \div 10
spaceshipBoostZ == -40000
starSpeedMin == 40
starSpeedMax == 80
starRecycleDistance == 1100
shipPositionX == 35
shipPositionY == 35

\* config.star.count and config.meteor.count as the config literal has them
defaultStarCount == 1800
defaultMeteorCount == 180

\* config.star.count as the device-level preset leaves it
PresetStarCount(level) ==
  CASE level = 5 -> 1800
    [] level = 4 -> 1200
    [] level = 3 -> 800
    [] level = 2 -> 500
    [] OTHER -> 300

\* config.meteor.count as the device-level preset leaves it
PresetMeteorCount(level) ==
  CASE level = 5 -> 180
    [] level = 4 -> 120
    [] level = 3 -> 80
    [] level = 2 -> 40
    [] OTHER -> 20

\* config.flame.count as the device-level preset leaves it
PresetFlameCount(level) ==
  CASE level = 5 -> 14000
    [] level = 4 -> 9000
    [] level = 3 -> 6000
    [] level = 2 -> 3500
    [] OTHER -> 2000

InitCfg(level) ==
  [speedMin |-> meteorSpeedMin, speedMax |-> meteorSpeedMax,
   flameCount |-> PresetFlameCount(level),
   lengthMin |-> flameLengthMin, lengthMax |-> flameLengthMax]

----------------------------------------------------------------------------
(* Math.random(): the fractions n/12 the model draws *)

RandomTwelfths == {0, 5, 6}
\* a + Math.random() * (b - a)
RandomIn(a, b) == {a + ((r * (b - a)) \div 12) : r \in RandomTwelfths}

----------------------------------------------------------------------------
(* THREE.Clock, as main3d.js uses it *)

\* clock.getDelta(): the first call starts the clock and returns 0
DeltaOf(c, t) == IF c.running THEN t - c.oldTime ELSE 0
AfterGetDelta(c, t) ==
  IF c.running
    THEN [running |-> TRUE, oldTime |-> t, elapsedTime |-> c.elapsedTime + (t - c.oldTime)]
    ELSE [running |-> TRUE, oldTime |-> t, elapsedTime |-> 0]

----------------------------------------------------------------------------
(* Orientations: rotations about Y with cosine c/5 and sine s/5 *)

\* 1: the identity (new THREE.Quaternion()), 2: the ship at rest, 3: the ship swayed
Rotations == <<[c |-> 5, s |-> 0], [c |-> 4, s |-> -3], [c |-> 3, s |-> -4]>>
IdentityRot == 1
BaseRot == 2
SwayRots == {2, 3}
\* new THREE.Vector3(0, 0, -1).applyQuaternion(q), in fifths
Dir(rot) == [x |-> -Rotations[rot].s, y |-> 0, z |-> -Rotations[rot].c]

----------------------------------------------------------------------------
(* The boost controller *)

PressEvents == {"mousedown", "touchstart"}
ButtonReleaseEvents == {"mouseup", "mouseleave", "touchend", "touchcancel"}
ReleaseEvents == ButtonReleaseEvents \cup {"docmouseup"}

\* if (!meteorSpeedBackup) meteorSpeedBackup = {...}   (an object is truthy)
BackupObject(old, val) == IF old = Null THEN Some(val) ELSE old
\* if (!flameCountBackup) flameCountBackup = config.flame.count   (0 is falsy)
BackupNumber(old, val) == IF old = Null \/ old = Some(0) THEN Some(val) ELSE old

\* the config after the multiplications of the press handler (Math.floor of a whole
\* number is that number)
BoostedCfg(c, msb, fcb, flb) ==
  [speedMin |-> msb[1].speedMin * BOOST_SPEED_FACTOR,
   speedMax |-> msb[1].speedMax * BOOST_SPEED_FACTOR,
   flameCount |-> fcb[1] * BOOST_FLAME_FACTOR,
   lengthMin |-> flb[1].lengthMin * BOOST_FLAME_FACTOR,
   lengthMax |-> flb[1].lengthMax * BOOST_FLAME_FACTOR]

RestoredCfg_NoLength(c, msb, fcb, flb) ==
  [c EXCEPT !.speedMin = IF msb # Null THEN msb[1].speedMin ELSE @,
            !.speedMax = IF msb # Null THEN msb[1].speedMax ELSE @,
            !.flameCount = IF fcb # Null /\ fcb # Some(0) THEN fcb[1] ELSE @]

\* the config after the restorations of stopBoost
RestoredCfg(c, msb, fcb, flb) ==
  [c EXCEPT !.speedMin = IF msb # Null THEN msb[1].speedMin ELSE @,
            !.speedMax = IF msb # Null THEN msb[1].speedMax ELSE @,
            !.flameCount = IF fcb # Null /\ fcb # Some(0) THEN fcb[1] ELSE @,
            !.lengthMin = IF flb # Null THEN flb[1].lengthMin ELSE @,
            !.lengthMax = IF flb # Null THEN flb[1].lengthMax ELSE @]

Rerandomized_Kept(ms, c) == {ms}

\* meteorInfos[i].speed = speedMin + Math.random() * (speedMax - speedMin), for every i
Rerandomized(ms, c) ==
  {[i \in 1..Len(ms) |-> [ms[i] EXCEPT !.speed = f[i]]] :
      f \in [1..Len(ms) -> RandomIn(c.speedMin, c.speedMax)]}

PressIgnored_Never(b) == FALSE

\* if (isBoosting) return;
PressIgnored(b) == b

\* the boost listener of mousedown and of touchstart
StartBoost(path) ==
  IF PressIgnored(isBoosting)
    THEN UNCHANGED <<boostVars, meteors, shipRot, boostPath, hud, flameVars>>
    ELSE LET msb == BackupObject(meteorSpeedBackup,
                                 [speedMin |-> cfg.speedMin, speedMax |-> cfg.speedMax])
             fcb == BackupNumber(flameCountBackup, cfg.flameCount)
             flb == BackupObject(flameLengthBackup,
                                 [lengthMin |-> cfg.lengthMin, lengthMax |-> cfg.lengthMax])
             boosted == BoostedCfg(cfg, msb, fcb, flb)
         IN /\ isBoosting' = TRUE
            /\ meteorSpeedBackup' = msb
            /\ flameCountBackup' = fcb
            /\ flameLengthBackup' = flb
            /\ cfg' = boosted
            /\ meteors' \in Rerandomized(meteors, boosted)
            /\ IF spaceship
                 THEN /\ spaceshipOriginZ' = shipZ
                      /\ spaceshipTargetZ' = Some(spaceshipBoostZ)
                      /\ shipRot' = BaseRot
                 ELSE UNCHANGED <<spaceshipOriginZ, spaceshipTargetZ, shipRot>>
            \* the particle flame leaves the scene, showCapsuleFlame() (returns
            \* without a ship)
            /\ flameInScene' = IF spaceship THEN FALSE ELSE flameInScene
            /\ capsuleFlameVisible' = IF spaceship THEN TRUE ELSE capsuleFlameVisible
            /\ isSpeedPaused' = TRUE
            \* updateSpeedDisplay(2000)
            /\ hud' = boostHudSpeed
            /\ isSwayPaused' = TRUE
            /\ boostPath' = path

StopBoost_StaysBoosting ==
  IF ~isBoosting
    THEN UNCHANGED <<boostVars, meteors, flameVars>>
    ELSE LET restored == RestoredCfg(cfg, meteorSpeedBackup, flameCountBackup,
                                     flameLengthBackup)
         IN /\ cfg' = restored
            /\ IF meteorSpeedBackup # Null
                 THEN meteors' \in Rerandomized(meteors, restored)
                 ELSE UNCHANGED meteors
            /\ spaceshipTargetZ' = IF spaceship THEN Some(spaceshipOriginZ)
                                                ELSE spaceshipTargetZ
            \* hideCapsuleFlame(), the particle flame back into the scene
            /\ flameInScene' = IF spaceship THEN TRUE ELSE flameInScene
            /\ capsuleFlameVisible' = IF spaceship THEN FALSE ELSE capsuleFlameVisible
            /\ isSpeedPaused' = FALSE
            /\ isSwayPaused' = FALSE
            /\ UNCHANGED <<isBoosting, meteorSpeedBackup, flameCountBackup,
                           flameLengthBackup, spaceshipOriginZ>>

StopBoost_SwayStaysPaused ==
  IF ~isBoosting
    THEN UNCHANGED <<boostVars, meteors, flameVars>>
    ELSE LET restored == RestoredCfg(cfg, meteorSpeedBackup, flameCountBackup,
                                     flameLengthBackup)
         IN /\ cfg' = restored
            /\ IF meteorSpeedBackup # Null
                 THEN meteors' \in Rerandomized(meteors, restored)
                 ELSE UNCHANGED meteors
            /\ spaceshipTargetZ' = IF spaceship THEN Some(spaceshipOriginZ)
                                                ELSE spaceshipTargetZ
            \* hideCapsuleFlame(), the particle flame back into the scene
            /\ flameInScene' = IF spaceship THEN TRUE ELSE flameInScene
            /\ capsuleFlameVisible' = IF spaceship THEN FALSE ELSE capsuleFlameVisible
            /\ isSpeedPaused' = FALSE
            /\ UNCHANGED isSwayPaused
            /\ isBoosting' = FALSE
            /\ UNCHANGED <<meteorSpeedBackup, flameCountBackup, flameLengthBackup,
                           spaceshipOriginZ>>

StopBoost_NoGuard ==
  IF FALSE
    THEN UNCHANGED <<boostVars, meteors, flameVars>>
    ELSE LET restored == RestoredCfg(cfg, meteorSpeedBackup, flameCountBackup,
                                     flameLengthBackup)
         IN /\ cfg' = restored
            /\ IF meteorSpeedBackup # Null
                 THEN meteors' \in Rerandomized(meteors, restored)
                 ELSE UNCHANGED meteors
            /\ spaceshipTargetZ' = IF spaceship THEN Some(spaceshipOriginZ)
                                                ELSE spaceshipTargetZ
            \* hideCapsuleFlame(), the particle flame back into the scene
            /\ flameInScene' = IF spaceship THEN TRUE ELSE flameInScene
            /\ capsuleFlameVisible' = IF spaceship THEN FALSE ELSE capsuleFlameVisible
            /\ isSpeedPaused' = FALSE
            /\ isSwayPaused' = FALSE
            /\ isBoosting' = FALSE
            /\ UNCHANGED <<meteorSpeedBackup, flameCountBackup, flameLengthBackup,
                           spaceshipOriginZ>>

\* stopBoost
StopBoost ==
  IF ~isBoosting
    THEN UNCHANGED <<boostVars, meteors, flameVars>>
    ELSE LET restored == RestoredCfg(cfg, meteorSpeedBackup, flameCountBackup,
                                     flameLengthBackup)
         IN /\ cfg' = restored
            /\ IF meteorSpeedBackup # Null
                 THEN meteors' \in Rerandomized(meteors, restored)
                 ELSE UNCHANGED meteors
            /\ spaceshipTargetZ' = IF spaceship THEN Some(spaceshipOriginZ)
                                                ELSE spaceshipTargetZ
            \* hideCapsuleFlame(), the particle flame back into the scene
            /\ flameInScene' = IF spaceship THEN TRUE ELSE flameInScene
            /\ capsuleFlameVisible' = IF spaceship THEN FALSE ELSE capsuleFlameVisible
            /\ isSpeedPaused' = FALSE
            /\ isSwayPaused' = FALSE
            /\ isBoosting' = FALSE
            /\ UNCHANGED <<meteorSpeedBackup, flameCountBackup, flameLengthBackup,
                           spaceshipOriginZ>>

----------------------------------------------------------------------------
(* The hold timer of the easter egg *)

\* the mousedown / touchstart listener of boostBtnMain
HoldPress ==
  IF boostEasterEggTriggered
    THEN UNCHANGED <<boostHoldTimer, timers, nextTimerId>>
    ELSE /\ timers' = timers \cup {[id |-> nextTimerId,
                                    due |-> now + BOOST_EASTER_EGG_TIME,
                                    stale |-> FALSE]}
         /\ boostHoldTimer' = Some(nextTimerId)
         /\ nextTimerId' = nextTimerId + 1

\* the timers left by clearTimeout(h)
Cleared(ts, h) == {t \in ts : h = Null \/ t.id # h[1]}

\* the mouseup / mouseleave / touchend / touchcancel listener of boostBtnMain;
\* every timer that stays pending has now outlived a release
HoldRelease ==
  /\ timers' = {[t EXCEPT !.stale = TRUE] : t \in Cleared(timers, boostHoldTimer)}
  /\ boostHoldTimer' = Null
  /\ UNCHANGED nextTimerId

EggLatched_Never(latched) == FALSE

\* if (boostEasterEggTriggered) return;
EggLatched(latched) == latched

\* distances along the heading between which the flying logo is interpolated
logoFlyFrom == 700
logoFlyTo == -200

\* from.clone().lerp(to, t), as the offset from the ship along its heading (1/1000
\* unit; t in ms of progress, logoFlyDuration being t = 1); lerp does not clamp t
LogoOffset(t) ==
  logoFlyFrom * 1000 + Quot((logoFlyTo - logoFlyFrom) * t, logoFlyDuration \div 1000)

LogoClamp_None(p) == p

\* let t = logoFlyProgress; if (t > 1.3) t = 1.3
LogoClamp(p) == IF p > LogoFlyEnd THEN LogoFlyEnd ELSE p

\* startLogoFlyInAnimation up to its await: nothing without a ship; else the old logo
\* is removed, the progress reset and the SVG requested
StartLogoFlyInAnimation ==
  IF ~spaceship
    THEN UNCHANGED logoVars
    ELSE /\ logoFlyMesh' = FALSE
         /\ logoFlyGlow' = FALSE
         /\ glowInScene' = FALSE
         /\ logoFlyProgress' = 0
         /\ logoFlyAnimating' = TRUE
         /\ logoFetch' = TRUE
         /\ UNCHANGED <<logoT, flyFrames>>

\* fadeInLogoOnSpaceshipTop up to its await
FadeInLogoOnSpaceshipTop ==
  /\ fadeStarts' = fadeStarts + 1
  /\ IF ~spaceship
       THEN UNCHANGED fadeFetch
       ELSE fadeFetch' = TRUE
  /\ UNCHANGED <<fade, topLogoOpacity, buttonText, buttonMutations>>

\* triggerBoostEasterEgg, run by the timer t
TriggerBoostEasterEgg(t) ==
  IF EggLatched(boostEasterEggTriggered)
    THEN UNCHANGED <<boostEasterEggTriggered, eggRuns, eggStale, logoVars>>
    ELSE /\ boostEasterEggTriggered' = TRUE
         /\ eggRuns' = eggRuns + 1
         /\ eggStale' = (eggStale \/ t.stale)
         /\ StartLogoFlyInAnimation

----------------------------------------------------------------------------
(* animateStars *)

\* samples of Math.cos(theta) * r and of (Math.random() - 0.5) * config.star.height
StarDiskX == {-900, 450}
StarDiskY == {-50}
\* samples of (Math.random() - 0.5) * config.star.zRange
StarInitZ == {-1000, 0, 999}

\* spaceship.localToWorld(cam.set(0, 0, 0)), or the origin without a ship (1/5000 unit)
Cam(ship, z) ==
  IF ship THEN [x |-> shipPositionX * 5000, y |-> shipPositionY * 5000, z |-> z * 5]
          ELSE [x |-> 0, y |-> 0, z |-> 0]

\* the orientation animateStars and animateMeteors read
HeadRot(ship, rot) == IF ship THEN rot ELSE IdentityRot

\* pos += dir * -speed * delta
StarMoved(st, d, delta) ==
  [st EXCEPT !.x = @ - d.x * st.speed * delta,
             !.y = @ - d.y * st.speed * delta,
             !.z = @ - d.z * st.speed * delta]

\* toStar.dot(dir), in 1/25000 unit
StarDot(st, d, cam) ==
  (st.x - cam.x) * d.x + (st.y - cam.y) * d.y + (st.z - cam.z) * d.z

StarBehind_Late(dot) == dot < -(starRecycleDistance + 100) * 25000

\* if (toStar.dot(dir) < -1100)
StarBehind(dot) == dot < -starRecycleDistance * 25000

\* a fresh point of the disk 1100 ahead of the ship
StarRecycled(st, lx, ly, rot, cam) ==
  LET q == Rotations[rot]
      d == Dir(rot)
  IN [st EXCEPT !.x = lx * q.c * 1000 + cam.x + d.x * starRecycleDistance * 1000,
                !.y = ly * 5 * 1000 + cam.y + d.y * starRecycleDistance * 1000,
                !.z = (-lx * q.s) * 1000 + cam.z + d.z * starRecycleDistance * 1000]

\* what one star may be after the step
StarNext(st, rot, cam, delta) ==
  LET m == StarMoved(st, Dir(rot), delta)
  IN IF StarBehind(StarDot(m, Dir(rot), cam))
       THEN {StarRecycled(m, lx, ly, rot, cam) : lx \in StarDiskX, ly \in StarDiskY}
       ELSE {m}

AnimateStars(delta) ==
  LET rot == HeadRot(spaceship, shipRot)
      cam == Cam(spaceship, shipZ)
      n == Len(stars)
  IN /\ stars' \in {f \in [1..n -> UNION {StarNext(stars[i], rot, cam, delta) : i \in 1..n}] :
                      \A i \in 1..n : f[i] \in StarNext(stars[i], rot, cam, delta)}
     /\ starView' = [rot |-> rot, cam |-> cam]

----------------------------------------------------------------------------
(* animateMeteors *)

\* ((elapsed + info.offset) * info.speed) % travelDistance in 1/1000 unit: the phase t is
\* PhaseNum / PhaseDen
PhaseDen == travelDistance * 1000
PhaseNum_NoWrap(elapsed, info) == (elapsed + info.offset) * info.speed
PhaseNum(elapsed, info) == ((elapsed + info.offset) * info.speed) % PhaseDen

\* the meteor relative to the ship: along the heading and across it (1/1000 unit)
MeteorPos(elapsed, info) ==
  [along |-> baseDistance * 1000 - PhaseNum(elapsed, info),
   lx |-> info.lx * 1000, ly |-> info.ly * 1000]

\* meteorPos.distanceTo(shipPos) < config.meteor.collisionDistance
Near(p) ==
  LET R == collisionDistance * 1000
  IN /\ Abs(p.along) < R /\ Abs(p.lx) < R /\ Abs(p.ly) < R
     /\ p.along * p.along < R * R - p.lx * p.lx - p.ly * p.ly

Collides_NoShip(ship, elapsed, info) ==
  Near(MeteorPos(elapsed, info)) /\ info.cooldown <= 0

\* if (spaceship) { ... if (dist < collisionDistance && info.cooldown <= 0)
Collides(ship, elapsed, info) ==
  ship /\ Near(MeteorPos(elapsed, info)) /\ info.cooldown <= 0

\* info.cooldown = config.meteor.cooldown on a hit; then if (info.cooldown > 0) info.cooldown -= delta
MeteorStep(info, hit, delta) ==
  LET c1 == IF hit THEN meteorCooldown ELSE info.cooldown
  IN [info EXCEPT !.cooldown = IF c1 > 0 THEN c1 - delta ELSE c1]

----------------------------------------------------------------------------
(* Sparks *)

\* createSpark(worldPos) at clock time start
NewSpark(id, start, pos) ==
  [id |-> id, start |-> start, pos |-> pos,
   radius |-> sparkMinRadius * 1000, opacity |-> sparkMaxOpacity]

SparkExpired_Late(t) == t > sparkDuration + 10

\* if (t > config.spark.duration)
SparkExpired(t) == t > sparkDuration

SparkRadius_Shrinking(t) ==
  sparkMaxRadius * 1000 - ((sparkMaxRadius - sparkMinRadius) * 1000 * t) \div sparkDuration

\* minRadius + (maxRadius - minRadius) * k with k = t / duration (1/1000 unit)
SparkRadius(t) ==
  sparkMinRadius * 1000 + ((sparkMaxRadius - sparkMinRadius) * 1000 * t) \div sparkDuration

\* maxOpacity * (1 - k) (1/1000000)
SparkOpacity(t) == (sparkMaxOpacity * (sparkDuration - t)) \div sparkDuration

\* the sparks of the meteors hit in this frame, appended in meteor order
RECURSIVE HitSparks(_, _, _, _)
HitSparks(i, id, elapsed, hits) ==
  IF i > Len(meteors) THEN <<>>
  ELSE IF i \in hits
    THEN <<NewSpark(id, elapsed, MeteorPos(elapsed, meteors[i]))>>
         \o HitSparks(i + 1, id + 1, elapsed, hits)
    ELSE HitSparks(i + 1, id, elapsed, hits)

\* the spark loop of render: expired sparks leave, the others grow and fade
UpdateSparks(list, elapsed) ==
  LET Live(sp) == ~SparkExpired(elapsed - sp.start)
      live == SelectSeq(list, Live)
  IN [i \in 1..Len(live) |->
        [live[i] EXCEPT !.radius = SparkRadius(elapsed - live[i].start),
                        !.opacity = SparkOpacity(elapsed - live[i].start)]]

SparkIds(list) == {list[i].id : i \in 1..Len(list)}

----------------------------------------------------------------------------
(* The ship Z ease of render *)

EaseZ_NoSnap(z, target, delta) == z + Quot((target - z) * Min(1000, delta * 6), 1000)

\* spaceship.position.z after the ease (1/1000 unit, delta in ms)
EaseZ(z, target, delta) ==
  LET diff == target - z
  IN IF Abs(diff) > 100 THEN z + Quot(diff * Min(1000, delta * 6), 1000)
                        ELSE target

\* spaceshipTargetZ after the ease
EaseTarget(z, target, origin, boosting) ==
  IF Abs(target - z) <= 100 /\ target = origin /\ ~boosting THEN Null ELSE Some(target)

----------------------------------------------------------------------------
(* render: one frame callback *)

\* speedDisplay += (targetSpeed - speedDisplay) * Math.min(1, delta * rate), rate in 1/10
EaseSpeed(sd, target, rate, delta) ==
  sd + Quot((target - sd) * Min(1000, (delta * rate) \div 10), 1000)

Render(t) ==
  LET flying == logoFlyAnimating /\ logoFlyMesh /\ spaceship
      \* the wrapper's clock.getDelta() while the logo flies
      c0 == IF flying THEN AfterGetDelta(clock, t) ELSE clock
      progress == logoFlyProgress + DeltaOf(clock, t)
      \* const delta = clock.getDelta() of render
      delta == DeltaOf(c0, t)
      c1 == AfterGetDelta(c0, t)
      elapsed == c1.elapsedTime
      hits == {i \in 1..Len(meteors) : Collides(spaceship, elapsed, meteors[i])}
      fresh == HitSparks(1, nextSparkId, elapsed, hits)
      \* animateMeteors eases speedDisplay, whether the speed animation is paused or not
      sd1 == EaseSpeed(speedDisplay, MeteorHudTarget, meteorHudRate, delta)
      flames == spaceship /\ ~isBoosting
  IN /\ clock' = c1
     /\ AnimateStars(delta)
     \* animateMeteors(delta, clock.getElapsedTime())
     /\ meteors' = [i \in 1..Len(meteors) |-> MeteorStep(meteors[i], i \in hits, delta)]
     /\ hitTimes' = hitTimes + Cardinality(hits)
     /\ nextSparkId' = nextSparkId + Len(fresh)
     /\ created' = created \cup {[id |-> fresh[i].id, start |-> fresh[i].start,
                                  pos |-> fresh[i].pos] : i \in 1..Len(fresh)}
     \* sway of the ship (not while boosting)
     /\ shipRot' \in IF spaceship /\ ~isBoosting
                       THEN (IF ~isSwayPaused THEN SwayRots ELSE {BaseRot})
                       ELSE {shipRot}
     \* spark animation
     /\ sparks' = UpdateSparks(sparks \o fresh, elapsed)
     /\ sceneSprites' = SparkIds(UpdateSparks(sparks \o fresh, elapsed))
     \* ship Z ease
     /\ IF spaceship /\ spaceshipTargetZ # Null
          THEN /\ shipZ' = EaseZ(shipZ, spaceshipTargetZ[1], delta)
               /\ spaceshipTargetZ' = EaseTarget(shipZ, spaceshipTargetZ[1],
                                                 spaceshipOriginZ, isBoosting)
          ELSE UNCHANGED <<shipZ, spaceshipTargetZ>>
     \* the flying logo: logoFlyProgress += clock.getDelta() / logoFlyDuration
     /\ IF flying
          THEN /\ logoFlyProgress' = progress
               /\ logoT' = LogoClamp(progress)
               /\ flyFrames' = flyFrames + 1
               /\ UNCHANGED logoFetch
               /\ IF progress >= LogoFlyEnd
                    THEN /\ logoFlyMesh' = FALSE
                         /\ logoFlyGlow' = FALSE
                         /\ glowInScene' = FALSE
                         /\ logoFlyAnimating' = FALSE
                         /\ FadeInLogoOnSpaceshipTop
                    ELSE UNCHANGED <<logoFlyMesh, logoFlyGlow, glowInScene,
                                     logoFlyAnimating, fadeVars>>
          ELSE UNCHANGED <<logoVars, fadeVars>>
     \* the flame updater builds its cache once, with flameCount entries
     /\ flameCache' = IF flames /\ flameCache = Null THEN Some(flameCount) ELSE flameCache
     /\ flameRan' = flames
     \* speed HUD
     /\ IF ~isSpeedPaused
          THEN /\ speedDisplay' = EaseSpeed(sd1, RenderHudTarget, renderHudRate, delta)
               /\ hud' = EaseSpeed(sd1, RenderHudTarget, renderHudRate, delta)
          ELSE /\ speedDisplay' = sd1
               /\ hud' = maxHudSpeed
     \* capsule flame: shown while boosting with a ship, hidden otherwise
     /\ capsuleFlameVisible' = (isBoosting /\ spaceship)
     /\ UNCHANGED flameInScene
     /\ speedBefore' = speedDisplay
     \* updateSpeedDisplay(speedDisplay) of animateMeteors
     /\ hudEased' = TRUE
     /\ frameDelta' = delta
     /\ easeRun' = IF spaceship /\ spaceshipTargetZ # Null /\ delta > 0
                     THEN [target |-> spaceshipTargetZ,
                           frames |-> IF easeRun.target = spaceshipTargetZ
                                        THEN easeRun.frames + 1 ELSE 1]
                     ELSE [target |-> Null, frames |-> 0]
     /\ lastTriggers' = hits
     /\ UNCHANGED <<sceneVars, spaceship, cfg, isBoosting, meteorSpeedBackup, flameCountBackup,
                    flameLengthBackup, isSwayPaused, isSpeedPaused, spaceshipOriginZ,
                    timerVars, pressHist, eggHist, visVars, loadVars>>

\* the host calls render once per displayed frame, dt after the event before it
Frame(dt) ==
  /\ loopRegistered
  \* a browser runs no animation callback of a hidden page
  /\ ~pageHidden
  /\ now + dt <= MaxTime
  /\ frames < MaxFrames
  /\ \A t \in timers : now + dt <= t.due
  /\ now' = now + dt
  /\ frames' = frames + 1
  /\ Render(now + dt)
  /\ lastEvent' = "frame"
  /\ prevBoosting' = isBoosting

----------------------------------------------------------------------------
(* The other events *)

\* samples of the point a click on the canvas gives createSpark
ClickPoints == {[along |-> 0, lx |-> 12000, ly |-> -7000]}

\* click on the canvas: createSpark(worldPos)
Click ==
  /\ renderer
  /\ nextSparkId <= MaxClicks
  /\ \E p \in ClickPoints :
       LET c1 == AfterGetDelta(clock, now)
           sp == NewSpark(nextSparkId, c1.elapsedTime, p)
       IN /\ clock' = c1
          /\ sparks' = Append(sparks, sp)
          /\ sceneSprites' = sceneSprites \cup {sp.id}
          /\ nextSparkId' = nextSparkId + 1
          /\ created' = created \cup {[id |-> sp.id, start |-> sp.start, pos |-> sp.pos]}
  /\ lastEvent' = "click"
  /\ prevBoosting' = isBoosting
  /\ UNCHANGED <<sceneVars, flameVars, now, frames, shipVars, boostVars, meteorVars, stars, timerVars,
                 pressHist, eggHist, logoVars, fadeVars, frameHist,
                 sysVars, hudVars>>

\* the GLTF load callback sets `spaceship`
ShipLoaded ==
  /\ envTexture = "loaded"
  /\ ~spaceship
  /\ spaceship' = TRUE
  /\ shipRot' = BaseRot
  \* flameParticles = new THREE.Points(...); scene.add(flameParticles)
  /\ flameInScene' = TRUE
  /\ UNCHANGED capsuleFlameVisible
  /\ lastEvent' = "shipload"
  /\ prevBoosting' = isBoosting
  /\ UNCHANGED <<sceneVars, clockVars, shipZ, boostVars, meteorVars, sparkVars, stars, timerVars,
                 pressHist, eggHist, logoVars, fadeVars, created, frameHist,
                 sysVars, hudVars>>

\* a press event: the hold-timer listener, then the boost listener
Press(ev, path) ==
  /\ boostEasterEggTriggered \/ nextTimerId <= MaxPresses
  /\ HoldPress
  /\ StartBoost(path)
  /\ lastEvent' = ev
  /\ prevBoosting' = isBoosting
  /\ cfgAtPress' = cfg
  /\ idleAtPress' = ~isBoosting
  /\ trail' = "press"
  /\ UNCHANGED <<sceneVars, clockVars, spaceship, shipZ, hitTimes, sparkVars, stars,
                 boostEasterEggTriggered, eggHist, logoVars, fadeVars, created, frameHist,
                 sysVars, speedDisplay>>

MouseDown == Press("mousedown", "mouse")
TouchStart == Press("touchstart", "touch")

\* a release event on the button: the hold-timer listener, then stopBoost
Release(ev) ==
  /\ HoldRelease
  /\ StopBoost
  /\ lastEvent' = ev
  /\ prevBoosting' = isBoosting
  /\ trail' = IF trail = "press" THEN "pressRelease" ELSE "none"
  /\ UNCHANGED <<sceneVars, clockVars, shipVars, hitTimes, sparkVars, stars,
                 boostEasterEggTriggered, boostPath, cfgAtPress, idleAtPress,
                 eggHist, logoVars, fadeVars, created, frameHist,
                 sysVars, hudVars>>

MouseUp == Release("mouseup")
MouseLeave == Release("mouseleave")
TouchEnd == Release("touchend")
TouchCancel == Release("touchcancel")

\* mouseup anywhere else on the page: the document listener runs stopBoost alone
DocMouseUp ==
  /\ StopBoost
  /\ lastEvent' = "docmouseup"
  /\ prevBoosting' = isBoosting
  /\ trail' = IF trail = "press" THEN "pressRelease" ELSE "none"
  /\ UNCHANGED <<sceneVars, clockVars, shipVars, hitTimes, sparkVars, stars, timerVars,
                 boostPath, cfgAtPress, idleAtPress, eggHist, logoVars, fadeVars, created,
                 frameHist,
                 sysVars, hudVars>>

\* a hold timer expires
TimerFire ==
  \E t \in timers :
    /\ now >= t.due
    /\ timers' = timers \ {t}
    /\ TriggerBoostEasterEgg(t)
    /\ expiries' = expiries + 1
    /\ lastEvent' = "timer"
    /\ prevBoosting' = isBoosting
    /\ UNCHANGED <<sceneVars, flameVars, clockVars, shipVars, boostVars, meteorVars, sparkVars, stars,
                   boostHoldTimer, nextTimerId, pressHist, fadeVars, created, frameHist,
                 sysVars, hudVars>>

\* the fetch of the logo SVG resolves: the rest of startLogoFlyInAnimation builds the mesh
LogoFetched ==
  /\ logoFetch
  /\ logoFetch' = FALSE
  /\ logoFlyMesh' = TRUE
  /\ logoFlyGlow' = TRUE
  \* scene.add(logoFlyGlow); the scene.add(logoFlyMesh) is commented out
  /\ glowInScene' = TRUE
  /\ lastEvent' = "logofetch"
  /\ prevBoosting' = isBoosting
  /\ UNCHANGED <<sceneVars, flameVars, clockVars, shipVars, boostVars, meteorVars, sparkVars, stars, timerVars,
                 pressHist, eggHist, logoFlyAnimating, logoFlyProgress, logoT,
                 flyFrames, fadeVars, created, frameHist,
                 sysVars, hudVars>>

\* the fetch of the logo SVG fails: the promise of startLogoFlyInAnimation rejects
LogoFetchFailed ==
  /\ logoFetch
  /\ logoFetch' = FALSE
  /\ lastEvent' = "logofetchfailed"
  /\ prevBoosting' = isBoosting
  /\ UNCHANGED <<sceneVars, flameVars, clockVars, shipVars, boostVars, meteorVars, sparkVars, stars, timerVars,
                 pressHist, eggHist, logoFlyAnimating, logoFlyProgress, logoFlyMesh,
                 logoFlyGlow, glowInScene, logoT, flyFrames, fadeVars, created,
                 frameHist,
                 sysVars, hudVars>>

\* fadeInStep with `fade` already advanced to n steps
FadeInStepTo_ButtonEveryStep(n) ==
  /\ fade' = Some(n)
  /\ topLogoOpacity' = Some(Min(topLogoMaxOpacity, (n * topLogoMaxOpacity) \div FadeSteps))
  /\ buttonText' = "vip"
  /\ buttonMutations' = buttonMutations + 1

FadeInStepTo(n) ==
  /\ fade' = Some(n)
  /\ IF n < FadeSteps
       THEN /\ topLogoOpacity' = Some(Min(topLogoMaxOpacity,
                                          (n * topLogoMaxOpacity) \div FadeSteps))
            /\ UNCHANGED <<buttonText, buttonMutations>>
       ELSE /\ topLogoOpacity' = Some(topLogoMaxOpacity)
            \* onComplete: the call-to-action button is rewritten
            /\ buttonText' = "vip"
            /\ buttonMutations' = buttonMutations + 1

\* the fetch of fadeInLogoOnSpaceshipTop resolves: the logo is put on the ship's top
\* with opacity 0 and fadeInStep runs for the first time
FadeFetched ==
  /\ fadeFetch
  /\ fadeFetch' = FALSE
  /\ FadeInStepTo(1)
  /\ lastEvent' = "fadefetch"
  /\ prevBoosting' = isBoosting
  /\ UNCHANGED <<sceneVars, flameVars, clockVars, shipVars, boostVars, meteorVars, sparkVars, stars, timerVars,
                 pressHist, eggHist, logoVars, fadeStarts, created, frameHist,
                 sysVars, hudVars>>

FadeInStep_OneTooMany ==
  /\ fade # Null
  /\ fade[1] <= FadeSteps
  /\ FadeInStepTo(fade[1] + 1)
  /\ lastEvent' = "fadestep"
  /\ prevBoosting' = isBoosting
  /\ UNCHANGED <<sceneVars, flameVars, clockVars, shipVars, boostVars, meteorVars, sparkVars, stars, timerVars,
                 pressHist, eggHist, logoVars, fadeFetch, fadeStarts, created, frameHist,
                 sysVars, hudVars>>

\* requestAnimationFrame(fadeInStep)
FadeInStep ==
  /\ fade # Null
  /\ fade[1] < FadeSteps
  /\ FadeInStepTo(fade[1] + 1)
  /\ lastEvent' = "fadestep"
  /\ prevBoosting' = isBoosting
  /\ UNCHANGED <<sceneVars, flameVars, clockVars, shipVars, boostVars, meteorVars, sparkVars, stars, timerVars,
                 pressHist, eggHist, logoVars, fadeFetch, fadeStarts, created, frameHist,
                 sysVars, hudVars>>

\* everything an event outside the frame loop and the boost leaves alone
restVars == <<sceneVars, flameVars, clockVars, shipVars, boostVars, meteorVars, sparkVars, stars, timerVars,
              pressHist, eggHist, logoVars, fadeVars, created, frameHist, flameCache,
              hudVars>>

PageHide_NoThrow ==
  /\ ~pageHidden
  /\ pageHidden' = TRUE
  /\ IF ~animationPaused
       THEN loopRegistered' = FALSE /\ animationPaused' = TRUE
       ELSE UNCHANGED <<loopRegistered, animationPaused>>
  /\ lastEvent' = "pagehide"
  /\ prevBoosting' = isBoosting
  /\ UNCHANGED <<canvasInView, loadVars, restVars>>

\* onVisibilityChange with document.hidden; without a renderer the call
\* renderer.setAnimationLoop(null) throws before the flag is set
PageHide ==
  /\ ~pageHidden
  /\ pageHidden' = TRUE
  /\ IF ~animationPaused /\ renderer
       THEN loopRegistered' = FALSE /\ animationPaused' = TRUE
       ELSE UNCHANGED <<loopRegistered, animationPaused>>
  /\ lastEvent' = "pagehide"
  /\ prevBoosting' = isBoosting
  /\ UNCHANGED <<canvasInView, loadVars, restVars>>

\* onVisibilityChange with the page visible again
PageShow ==
  /\ pageHidden
  /\ pageHidden' = FALSE
  /\ IF animationPaused
       THEN loopRegistered' = TRUE /\ animationPaused' = FALSE
       ELSE UNCHANGED <<loopRegistered, animationPaused>>
  /\ lastEvent' = "pageshow"
  /\ prevBoosting' = isBoosting
  /\ UNCHANGED <<canvasInView, loadVars, restVars>>

\* the IntersectionObserver reports the canvas at or below the 0.2 ratio (observer
\* callbacks are delivered while the page is shown)
CanvasLeaves ==
  /\ canvasInView /\ ~pageHidden
  /\ canvasInView' = FALSE
  /\ IF renderer /\ ~animationPaused
       THEN loopRegistered' = FALSE /\ animationPaused' = TRUE
       ELSE UNCHANGED <<loopRegistered, animationPaused>>
  /\ lastEvent' = "canvasout"
  /\ prevBoosting' = isBoosting
  /\ UNCHANGED <<pageHidden, loadVars, restVars>>

\* the IntersectionObserver reports the canvas above the 0.2 ratio
CanvasEnters ==
  /\ ~canvasInView /\ ~pageHidden
  /\ canvasInView' = TRUE
  /\ IF renderer /\ animationPaused
       THEN loopRegistered' = TRUE /\ animationPaused' = FALSE
       ELSE UNCHANGED <<loopRegistered, animationPaused>>
  /\ lastEvent' = "canvasin"
  /\ prevBoosting' = isBoosting
  /\ UNCHANGED <<pageHidden, loadVars, restVars>>

\* the environment texture arrives: init goes on to start the ship's load, create the
\* renderer and register the frame callback
TextureLoaded ==
  /\ envTexture = "loading"
  /\ envTexture' = "loaded"
  /\ renderer' = TRUE
  /\ loopRegistered' = TRUE
  /\ lastEvent' = "textureloaded"
  /\ prevBoosting' = isBoosting
  /\ UNCHANGED <<pageHidden, canvasInView, animationPaused, restVars>>

\* the environment texture fails to load: the await of init throws and init ends there
TextureFailed ==
  /\ envTexture = "loading"
  /\ envTexture' = "failed"
  /\ lastEvent' = "texturefailed"
  /\ prevBoosting' = isBoosting
  /\ UNCHANGED <<renderer, visVars, restVars>>

----------------------------------------------------------------------------
(* Initial states: init() has run, the ship model is still loading *)

\* meteorInfos.push({ theta, r, y, speed, offset }), cooldown 0
MeteorInit(offsets, lxs, lys) ==
  [speed : RandomIn(meteorSpeedMin, meteorSpeedMax), offset : offsets,
   lx : lxs, ly : lys, cooldown : {0}]

\* a star of the initial field
StarInit ==
  {[x |-> lx * 5000, y |-> ly * 5000, z |-> lz * 5000, speed |-> sp] :
     lx \in StarDiskX, ly \in StarDiskY, lz \in StarInitZ,
     sp \in {starSpeedMin, starSpeedMax - 1}}

InitAt(levels, meteorSeqs, starSeqs, textureLoaded) ==
  /\ envTexture = IF textureLoaded THEN "loaded" ELSE "loading"
  /\ renderer = textureLoaded
  /\ loopRegistered = textureLoaded
  /\ pageHidden = FALSE
  /\ canvasInView = TRUE
  /\ animationPaused = FALSE
  /\ flameCache = Null
  /\ speedDisplay = initialSpeedDisplay
  /\ flameInScene = FALSE
  /\ capsuleFlameVisible = FALSE
  /\ hud = Null
  /\ speedBefore = initialSpeedDisplay
  /\ hudEased = FALSE
  /\ flameRan = FALSE
  /\ now = 0
  /\ frames = 0
  /\ clock = [running |-> FALSE, oldTime |-> 0, elapsedTime |-> 0]
  /\ spaceship = FALSE
  /\ shipRot = IdentityRot
  /\ shipZ = 0
  /\ deviceLevel \in levels
  \* init() builds the stars and the meteors before it first awaits, and the
  \* presets are assigned after the call init() has returned
  /\ starsBuilt = defaultStarCount
  /\ meteorsBuilt = defaultMeteorCount
  /\ cfg = InitCfg(deviceLevel)
  /\ isBoosting = FALSE
  /\ meteorSpeedBackup = Null
  /\ flameCountBackup = Null
  /\ flameLengthBackup = Null
  /\ isSwayPaused = FALSE
  /\ isSpeedPaused = FALSE
  /\ spaceshipTargetZ = Null
  /\ spaceshipOriginZ = 0
  /\ meteors \in meteorSeqs
  /\ hitTimes = 0
  /\ sparks = <<>>
  /\ sceneSprites = {}
  /\ nextSparkId = 1
  /\ stars \in starSeqs
  /\ boostHoldTimer = Null
  /\ timers = {}
  /\ nextTimerId = 1
  /\ boostEasterEggTriggered = FALSE
  /\ logoFlyAnimating = FALSE
  /\ logoFlyProgress = 0
  /\ logoFlyMesh = FALSE
  /\ logoFetch = FALSE
  /\ logoFlyGlow = FALSE
  /\ glowInScene = FALSE
  /\ logoT = 0
  /\ flyFrames = 0
  /\ fadeFetch = FALSE
  /\ fade = Null
  /\ topLogoOpacity = Null
  /\ buttonText = "default"
  /\ fadeStarts = 0
  /\ buttonMutations = 0
  /\ lastEvent = "init"
  /\ prevBoosting = FALSE
  /\ boostPath = "none"
  /\ cfgAtPress = cfg
  /\ idleAtPress = TRUE
  /\ trail = "none"
  /\ eggRuns = 0
  /\ eggStale = FALSE
  /\ expiries = 0
  /\ created = {}
  /\ frameDelta = 0
  /\ easeRun = [target |-> Null, frames |-> 0]
  /\ lastTriggers = {}
  /\ starView = [rot |-> IdentityRot, cam |-> Cam(FALSE, 0)]

\* init() has run to its end
InitWith(levels, meteorSeqs, starSeqs) == InitAt(levels, meteorSeqs, starSeqs, TRUE)

----------------------------------------------------------------------------
(* Spec: the boost controller and the hold timer.  One meteor is followed, *)
(* away from the ship's path; time passes in steps of 5 s.  The device     *)
(* level is 5; SpecPresets runs the boost under every level.               *)

Init == InitWith({5}, {<<m>> : m \in MeteorInit({0}, {200}, {-50})}, {<<>>})

FrameBoost == Frame(5000)

Next ==
  \/ MouseDown \/ TouchStart
  \/ MouseUp \/ MouseLeave \/ TouchEnd \/ TouchCancel \/ DocMouseUp
  \/ TimerFire \/ LogoFetched \/ ShipLoaded \/ FrameBoost

Spec == Init /\ [][Next]_vars

----------------------------------------------------------------------------
(* The boost controller: properties under Spec *)

\* C1: a press that starts a boost, followed by a release with no press in between,
\* leaves config.meteor.speedMin/speedMax, config.flame.count and
\* config.flame.lengthMin/lengthMax equal to what they were immediately before the press
BoostRoundTrip == (trail = "pressRelease" /\ idleAtPress) => cfg = cfgAtPress

\* a second press/release pair, started by touch, has completed
BoostRoundTripSecondPair ==
  /\ trail = "pressRelease" /\ idleAtPress
  /\ lastEvent \in ReleaseEvents /\ prevBoosting
  /\ boostPath = "touch" /\ nextTimerId = 3

\* C2: the easter-egg sequence (cue sound and startLogoFlyInAnimation) runs at most once
EggAtMostOnce == eggRuns <= 1

\* two hold timers have expired and the sequence has run once
EggSecondExpiryIgnored == expiries = 2 /\ eggRuns = 1 /\ lastEvent = "timer"

\* C3: every release event cancels the hold timer, so the easter egg is run only by a
\* timer that no release event has followed since the press that armed it
EggOnlyAfterUnreleasedHold == ~eggStale

\* C4: a release event received while boosting ends the boost: isBoosting is false and
\* the config holds the snapshotted values
ReleaseReturnsToIdle ==
  (lastEvent \in ReleaseEvents /\ prevBoosting) =>
     /\ ~isBoosting
     /\ cfg.speedMin = meteorSpeedBackup[1].speedMin
     /\ cfg.speedMax = meteorSpeedBackup[1].speedMax
     /\ cfg.flameCount = flameCountBackup[1]
     /\ cfg.lengthMin = flameLengthBackup[1].lengthMin
     /\ cfg.lengthMax = flameLengthBackup[1].lengthMax

\* a boost started by the mouse has been ended by touchcancel
MouseBoostEndedByTouchCancel ==
  lastEvent = "touchcancel" /\ prevBoosting /\ boostPath = "mouse" /\ ~isBoosting

\* C5: a press received while boosting changes no boost state: the backups, the config,
\* the meteor speeds, the ship's Z and its target and origin Z stay as they are
PressWhileBoostingInert ==
  [][(isBoosting /\ lastEvent' \in PressEvents) =>
        UNCHANGED <<boostVars, meteors, shipVars>>]_vars

\* a press has been received while boosting, the ship loaded and moved forward
PressedWhileBoosting ==
  lastEvent \in PressEvents /\ prevBoosting /\ spaceship /\ shipZ = spaceshipBoostZ

----------------------------------------------------------------------------
(* SpecStars: the starfield.  NumStars stars are followed; the ship loads, *)
(* sways, and is moved along Z by a boost.                                 *)

InitStars == InitWith({5}, {<<>>}, {<<st>> : st \in StarInit})

MaxStarFrames == 5

FrameStars == frames < MaxStarFrames /\ Frame(2500)

NextStars ==
  \/ FrameStars \/ ShipLoaded \/ MouseDown \/ MouseUp \/ TimerFire \/ LogoFetched

SpecStars == InitStars /\ [][NextStars]_vars

\* toStar.dot(dir) of star i for the heading and ship position of the last frame
ViewDot(i) == StarDot(stars[i], Dir(starView.rot), starView.cam)

\* C6: after every animateStars step no star is behind the ship by more than the
\* recycle threshold (1100) along the heading used in that step, so a fortiori not by
\* more than the threshold plus one frame's travel: a star found below the threshold
\* after its translation has been recycled in the same step
StarsWithinBand ==
  lastEvent = "frame" =>
    \A i \in 1..Len(stars) :
      /\ ViewDot(i) >= -starRecycleDistance * 25000
      /\ ViewDot(i) >= -starRecycleDistance * 25000 - stars[i].speed * frameDelta * 25

\* a star has just been recycled to the disk 1100 ahead of the loaded, swaying ship
\* that a boost has moved along Z
StarJustRecycled ==
  /\ lastEvent = "frame" /\ spaceship /\ frameDelta > 0
  /\ starView.rot # BaseRot /\ starView.cam.z < 0
  /\ \E i \in 1..Len(stars) : ViewDot(i) = starRecycleDistance * 25000

----------------------------------------------------------------------------
(* SpecMeteors: meteors on and near the ship's path, and their collisions. *)

InitMeteors ==
  InitWith({5}, {<<a, b>> : a, b \in MeteorInit({0}, {0, 20}, {0})}, {<<>>})

FrameMeteors == \E dt \in {250, 2750} : Frame(dt)

NextMeteors == FrameMeteors \/ ShipLoaded

SpecMeteors == InitMeteors /\ [][NextMeteors]_vars

RECURSIVE GCD(_, _)
GCD(a, b) == IF b = 0 THEN a ELSE GCD(b, a % b)

\* the least whole number of ms that is a whole number of periods travelDistance/speed
\* (for speed 400 it is one period, 5500 ms)
WholePeriods(speed) == PhaseDen \div GCD(PhaseDen, speed)

\* C7: the phase of every meteor lies in [0, 1) and is the same one period (a whole
\* number of periods, where the period is not a whole number of ms) later; for speed
\* 400 and offset 0 it is 0 at elapsed 0 and at elapsed 5.5 s
PhaseInRangeAndPeriodic ==
  \A i \in 1..Len(meteors) :
    LET m == meteors[i]
        e == clock.elapsedTime
    IN /\ 0 <= PhaseNum(e, m) /\ PhaseNum(e, m) < PhaseDen
       /\ PhaseNum(e + WholePeriods(m.speed), m) = PhaseNum(e, m)
       /\ (m.speed = 400 => WholePeriods(m.speed) = 5500)
       /\ (m.speed = 400 /\ m.offset = 0 /\ e \in {0, 5500}) => PhaseNum(e, m) = 0

\* a meteor of speed 400 and offset 0 is back at the base point at elapsed 5.5 s
PhaseWrappedAtPeriod ==
  /\ lastEvent = "frame" /\ clock.elapsedTime = 5500
  /\ \E i \in 1..Len(meteors) :
       /\ meteors[i].speed = 400 /\ meteors[i].offset = 0
       /\ PhaseNum(5500, meteors[i]) = 0 /\ PhaseNum(2750, meteors[i]) = PhaseDen \div 2

\* the meteors a frame at clock time e must trigger, from the state before the frame
MustTrigger(e) ==
  {i \in 1..Len(meteors) :
     /\ spaceship
     /\ Near(MeteorPos(e, meteors[i]))
     /\ meteors[i].cooldown <= 0}

----------------------------------------------------------------------------
(* SpecSparks: sparks of clicks and of one meteor on the ship's path.      *)

InitSparks ==
  InitWith({5}, {<<m>> : m \in MeteorInit({0}, {0}, {0})}, {<<>>})

FrameSparks == \E dt \in {10, 390, 10000} : Frame(dt)

NextSparks == FrameSparks \/ Click \/ ShipLoaded

SpecSparks == InitSparks /\ [][NextSparks]_vars

\* C8: after the spark update of a frame no spark older than the duration is left in
\* the list or in the scene, and every spark created that is not older is in both
ExpiredSparksRemoved ==
  lastEvent = "frame" =>
    /\ \A i \in 1..Len(sparks) : clock.elapsedTime - sparks[i].start <= sparkDuration
    /\ \A c \in created :
         IF clock.elapsedTime - c.start > sparkDuration
           THEN c.id \notin SparkIds(sparks) /\ c.id \notin sceneSprites
           ELSE c.id \in SparkIds(sparks) /\ c.id \in sceneSprites
    /\ sceneSprites = SparkIds(sparks)

\* the spark created at 10.0 s has been removed by the frame at 10.41 s
SparkRemovedAt10410 ==
  /\ lastEvent = "frame" /\ clock.elapsedTime = 10410
  /\ \E c \in created : c.start = 10000 /\ c.id \notin SparkIds(sparks)
                        /\ c.id \notin sceneSprites

\* the radius and the opacity the source's formulas give a spark of age t
RadiusAt(t) ==
  sparkMinRadius * 1000 + ((sparkMaxRadius - sparkMinRadius) * 1000 * t) \div sparkDuration
OpacityAt(t) == sparkMaxOpacity - (sparkMaxOpacity * t) \div sparkDuration

\* C9: after the spark update of a frame every live spark of age t has radius
\* minRadius + (maxRadius - minRadius) * k and opacity maxOpacity * (1 - k), k = t/duration
\* in [0, 1]; the radius lies within [minRadius, maxRadius] and has not decreased since
\* the state before, the opacity lies within [0, maxOpacity] and has not increased
SparkGrowsAndFades ==
  [][lastEvent' = "frame" =>
       \A i \in 1..Len(sparks') :
         LET sp == sparks'[i]
             t == clock'.elapsedTime - sp.start
         IN /\ 0 <= t /\ t <= sparkDuration
            /\ sp.radius = RadiusAt(t) /\ sp.opacity = OpacityAt(t)
            /\ sparkMinRadius * 1000 <= sp.radius /\ sp.radius <= sparkMaxRadius * 1000
            /\ 0 <= sp.opacity /\ sp.opacity <= sparkMaxOpacity
            /\ \A j \in 1..Len(sparks) :
                 sparks[j].id = sp.id =>
                   sp.radius >= sparks[j].radius /\ sp.opacity <= sparks[j].opacity]_vars

\* the spark created at 10.0 s is present at 10.39 s with opacity 0.01125 and radius 97.75
SparkAt10390 ==
  /\ lastEvent = "frame" /\ clock.elapsedTime = 10390
  /\ \E i \in 1..Len(sparks) :
       /\ sparks[i].start = 10000 /\ sparks[i].id \in sceneSprites
       /\ sparks[i].opacity = 11250 /\ sparks[i].radius = 97750

\* C11: every meteor's cooldown lies in [0, config.meteor.cooldown] in every state
\* (decremented between triggers and clamped at zero, never negative)
CooldownClamped ==
  \A i \in 1..Len(meteors) :
    0 <= meteors[i].cooldown /\ meteors[i].cooldown <= meteorCooldown

----------------------------------------------------------------------------
(* The boost seen from the frame loop: ship Z and speed HUD.               *)
(* Both under Spec.                                                        *)

\* C16: once the boost is released and the Z ease has settled (the target is cleared),
\* the ship is back at the Z it had before the first press
ShipSettlesAtRestZ ==
  (spaceship /\ ~isBoosting /\ spaceshipTargetZ = Null) => shipZ = 0

\* C17: no frame rendered while the boost is active changes speedDisplay or writes an
\* eased value to the HUD
HudFrozenWhileBoosting ==
  (lastEvent = "frame" /\ isBoosting) => (speedDisplay = speedBefore /\ ~hudEased)

\* C24: after every boost event handler has returned, isBoosting, isSwayPaused and
\* isSpeedPaused have the same value
BoostFlagsAgree ==
  /\ isSwayPaused = isBoosting
  /\ isSpeedPaused = isBoosting

\* a release has ended a boost that a touch started, a frame having run in between
FlagsClearedAfterTouchBoost ==
  /\ lastEvent \in ReleaseEvents /\ prevBoosting /\ boostPath = "touch"
  /\ ~isBoosting /\ ~isSwayPaused /\ ~isSpeedPaused
  /\ frames > 0

\* C30: a release event received while not boosting changes neither the config, the
\* meteor speeds, the ship's target Z, the flames' visibility nor the three flags
IdleReleaseInert ==
  [][(lastEvent' \in ReleaseEvents /\ ~isBoosting) =>
        UNCHANGED <<cfg, meteors, spaceshipTargetZ, spaceshipOriginZ, flameVars,
                    isBoosting, isSwayPaused, isSpeedPaused>>]_vars

\* a mouseup somewhere on the page has arrived while the released ship eases back
DocMouseUpWhileEasingBack ==
  /\ lastEvent = "docmouseup" /\ ~prevBoosting /\ ~isBoosting
  /\ spaceship /\ spaceshipTargetZ # Null /\ flameInScene
  /\ meteorSpeedBackup # Null

\* C23: at the end of every frame the capsule flame is visible only while boosting with
\* the ship loaded, and then the particle flame is not in the scene
FlamesNeverTogether ==
  lastEvent = "frame" =>
    /\ capsuleFlameVisible => (isBoosting /\ spaceship)
    /\ capsuleFlameVisible => ~flameInScene

----------------------------------------------------------------------------
(* SpecLogo: the easter egg's logo fly-in and the fade-in that follows it. *)

InitLogo == InitWith({5}, {<<>>}, {<<>>})

FrameLogo == \E dt \in {1300, 5000} : Frame(dt)

NextLogo ==
  \/ MouseDown \/ MouseUp \/ TimerFire \/ ShipLoaded \/ FrameLogo
  \/ LogoFetched \/ LogoFetchFailed \/ FadeFetched \/ FadeInStep

SpecLogo == InitLogo /\ [][NextLogo]_vars

\* C12 (as the code has it): logoFlyProgress starts at 0 and is never negative; a frame
\* that moves the flying logo adds the time since the clock was last read (delta /
\* logoFlyDuration in the source's units) and no other step changes it except the reset
\* to 0 when the animation starts; it does not decrease while the fly-in animates and is
\* below 1.3 as long as it animates; the clamped copy t that positions the logo lies in
\* [0, 1.3]
LogoProgressForward ==
  [][/\ logoFlyProgress' >= 0
     /\ 0 <= logoT' /\ logoT' <= LogoFlyEnd
     /\ logoT' = IF logoFlyProgress' > LogoFlyEnd /\ flyFrames' > 0 THEN LogoFlyEnd
                  ELSE IF flyFrames' > 0 THEN logoFlyProgress' ELSE 0
     /\ IF flyFrames' # flyFrames
          THEN logoFlyProgress' = logoFlyProgress + (now' - clock.oldTime)
          ELSE logoFlyProgress' = logoFlyProgress
                 \/ (logoFlyProgress' = 0 /\ ~logoFlyAnimating /\ logoFlyAnimating')
     /\ (logoFlyAnimating /\ logoFlyAnimating') => logoFlyProgress' >= logoFlyProgress
     /\ logoFlyAnimating' => logoFlyProgress' < LogoFlyEnd]_vars

\* the fly-in has progressed over two frames and is still running
LogoHalfWay ==
  /\ logoFlyAnimating /\ flyFrames = 2 /\ logoFlyProgress = 2600 /\ logoT = 2600

\* C12 (as stated): logoFlyProgress lies in [0, 1.3] in every reachable state
LogoProgressInRange == 0 <= logoFlyProgress /\ logoFlyProgress <= LogoFlyEnd

\* C13: the frame in which the progress first reaches 1.3 removes both fly-in meshes,
\* clears logoFlyAnimating and starts the fade-in; the fade-in is started at most once
\* in a session; the button is rewritten at most once, and only by the step that
\* completes the fade-in
FlyInEndsOnceThenFade ==
  [][/\ (flyFrames' # flyFrames /\ logoFlyProgress' >= LogoFlyEnd) =>
          /\ ~logoFlyMesh' /\ ~logoFlyGlow' /\ ~glowInScene' /\ ~logoFlyAnimating'
          /\ fadeStarts' = fadeStarts + 1 /\ fadeFetch'
     /\ fadeStarts' # fadeStarts =>
          /\ flyFrames' # flyFrames /\ logoFlyProgress < LogoFlyEnd
          /\ logoFlyProgress' >= LogoFlyEnd
     /\ fadeStarts' <= 1
     /\ buttonMutations' <= 1
     /\ (buttonText' = "vip") = (buttonMutations' = 1)
     /\ buttonMutations' # buttonMutations =>
          /\ fade' = Some(FadeSteps) /\ topLogoOpacity' = Some(topLogoMaxOpacity)
          /\ fadeStarts' = 1 /\ ~logoFlyAnimating']_vars

\* the fly-in has ended, the fade-in has completed and the button has been rewritten
ButtonRewrittenAfterFade ==
  /\ lastEvent = "fadestep" /\ buttonMutations = 1 /\ buttonText = "vip"
  /\ fadeStarts = 1 /\ fade = Some(FadeSteps) /\ logoFlyProgress >= LogoFlyEnd

\* C15: whenever the easter egg is latched the fly-in animation has been started (it is
\* running, or it has run and handed over to the fade-in), whatever was loaded when the
\* hold timer expired
LatchStartsFlyIn ==
  boostEasterEggTriggered => (logoFlyAnimating \/ fadeStarts > 0)

\* C29: for every progress value that places the flying logo, its offset from the ship
\* along the heading lies between 700 units ahead and 200 units behind
LogoOffsetWithinPath ==
  flyFrames > 0 =>
    /\ LogoOffset(logoT) <= logoFlyFrom * 1000
    /\ LogoOffset(logoT) >= logoFlyTo * 1000

\* C21: a frame that moves the flying logo hands the base render the same delta that
\* it adds to logoFlyProgress
FlyInSharesFrameDelta ==
  [][(lastEvent' = "frame" /\ flyFrames' # flyFrames) =>
        frameDelta' = logoFlyProgress' - logoFlyProgress]_vars

----------------------------------------------------------------------------
(* SpecVis: the page and the canvas going out of sight and coming back.    *)

InitVis == InitWith({5}, {<<m>> : m \in MeteorInit({0}, {0}, {0})}, {<<>>})

FrameVis == \E dt \in {250, 5000} : Frame(dt)

NextVis ==
  \/ PageHide \/ PageShow \/ CanvasLeaves \/ CanvasEnters
  \/ FrameVis \/ ShipLoaded \/ Click

SpecVis == InitVis /\ [][NextVis]_vars

\* C14: the frame callback never runs while the page is hidden or the canvas is out of
\* view (it is de-registered then, and registered again when both are back)
FramesOnlyWhenVisible ==
  lastEvent = "frame" => (~pageHidden /\ canvasInView)

----------------------------------------------------------------------------
(* SpecLoad: the page from the await of init on.                           *)

InitLoad == InitAt({5}, {<<m>> : m \in MeteorInit({0}, {0}, {0})}, {<<>>}, FALSE)

FrameLoad == \E dt \in {250, 5000} : Frame(dt)

NextLoad ==
  \/ TextureLoaded \/ TextureFailed \/ ShipLoaded \/ FrameLoad
  \/ PageHide \/ PageShow \/ CanvasLeaves \/ CanvasEnters

SpecLoad == InitLoad /\ [][NextLoad]_vars

\* C18: a failed load of the environment texture is not fatal: the renderer is
\* created and the frame loop is started all the same
TextureFailureNotFatal ==
  envTexture = "failed" => (renderer /\ loopRegistered)

\* C25: once the renderer exists, animationPaused is true exactly when the frame
\* callback is de-registered
PausedFlagMatchesLoop ==
  renderer => (animationPaused <=> ~loopRegistered)

\* the canvas went out of view before the renderer existed (the observer returned),
\* init then registered the callback, and the page has been hidden and shown again
ShownAgainAfterBackgroundInit ==
  /\ lastEvent = "pageshow" /\ renderer /\ loopRegistered /\ ~animationPaused
  /\ frames > 0 /\ ~canvasInView

----------------------------------------------------------------------------
(* SpecPresets: the boost and the flame updater under each of the five     *)
(* device-level presets.                                                   *)

DeviceLevels == 1..5

InitPresets ==
  InitWith(DeviceLevels, {<<m>> : m \in MeteorInit({0}, {200}, {-50})}, {<<>>})

FramePresets == Frame(5000)

NextPresets ==
  \/ MouseDown \/ MouseUp \/ TimerFire \/ LogoFetched \/ ShipLoaded \/ FramePresets

SpecPresets == InitPresets /\ [][NextPresets]_vars

\* C19: every meteor's speed lies in [config.meteor.speedMin, config.meteor.speedMax];
\* while boosting the range is 5 times the pre-boost range and the flame count and
\* lengths are floor(4 times) the pre-boost ones; while idle all equal the pre-boost ones
SpeedsInConfiguredRange ==
  /\ \A i \in 1..Len(meteors) :
       meteors[i].speed >= cfg.speedMin /\ meteors[i].speed <= cfg.speedMax
  /\ LET pre == InitCfg(deviceLevel)
     IN IF isBoosting
          THEN /\ cfg.speedMin = 5 * pre.speedMin
               /\ cfg.speedMax = 5 * pre.speedMax
               /\ cfg.flameCount = 4 * pre.flameCount
               /\ cfg.lengthMin = 4 * pre.lengthMin
               /\ cfg.lengthMax = 4 * pre.lengthMax
          ELSE cfg = pre

\* a frame has moved the meteor at a speed drawn for the boost, above the idle range
MeteorFastInBoost ==
  /\ lastEvent = "frame" /\ isBoosting /\ frameDelta > 0
  /\ meteors[1].speed > 5 * meteorSpeedMin

\* C26: the numbers of stars and of meteors created equal config.star.count and
\* config.meteor.count of the selected device-level preset
SceneBuiltFromPreset ==
  /\ starsBuilt = PresetStarCount(deviceLevel)
  /\ meteorsBuilt = PresetMeteorCount(deviceLevel)

\* C20: whenever the flame updater runs, its cached basis has config.flame.count entries
FlameCacheTracksCount ==
  (lastEvent = "frame" /\ flameRan) => flameCache = Some(cfg.flameCount)

----------------------------------------------------------------------------
(* SpecHits: one meteor on the ship's path, frames 50 ms or 2.75 s apart.  *)

InitHits == InitWith({5}, {<<m>> : m \in MeteorInit({0}, {0}, {0})}, {<<>>})

FrameHits == \E dt \in {50, 2750} : Frame(dt)

NextHits == FrameHits \/ ShipLoaded

SpecHits == InitHits /\ [][NextHits]_vars

\* C22: two consecutive triggers of one meteor are at least config.meteor.cooldown of
\* frame time apart; here for triggers in two frames that follow each other
TriggersSpacedByCooldown ==
  [][lastEvent' = "frame" =>
       \A i \in lastTriggers' \cap lastTriggers : frameDelta' >= meteorCooldown]_vars

----------------------------------------------------------------------------
(* SpecEase: the ship's Z ease under presses and releases, with frames     *)
(* 150 ms apart (the ease moves 9/10 of the way) or 300 ms apart (all of   *)
(* the way).                                                               *)

InitEase == InitWith({5}, {<<>>}, {<<>>})

EaseDeltas == {150, 300}

FrameEase == \E dt \in EaseDeltas : Frame(dt)

NextEase == MouseDown \/ MouseUp \/ ShipLoaded \/ FrameEase

SpecEase == InitEase /\ [][NextEase]_vars

\* frames of interval dt that an ease over the distance diff takes: the distance
\* shrinks by the factor 1 - Math.min(1, dt * 6) per frame until it is at most 0.1,
\* and one more frame sets the target
RECURSIVE EaseFramesFrom(_, _)
EaseFramesFrom(diff, dt) ==
  IF diff <= 100 THEN 1
  ELSE 1 + EaseFramesFrom(diff - (diff * Min(1000, dt * 6)) \div 1000, dt)

\* frames with delta > 0 after which every ease between the origin and the boost Z has
\* settled, for the frame intervals of SpecEase (40 -> 4 -> 0.4 -> 0.04, then set)
EaseFramesNeeded ==
  LET n == {EaseFramesFrom(Abs(spaceshipBoostZ), dt) : dt \in EaseDeltas}
  IN CHOOSE k \in n : \A j \in n : j <= k

\* C27: with the ship loaded, a frame with a target moves the ship's Z towards the
\* target and never past it, moves it if delta > 0 and it is not there yet, and after
\* EaseFramesNeeded frames with delta > 0 the Z equals the target exactly (the boost Z
\* while boosting, the origin Z after the release); the target is reset to null only
\* by a frame that leaves the released ship exactly at spaceshipOriginZ, and an ease
\* that has run its frames after a release has reset it
ShipEaseSettles ==
  [][(lastEvent' = "frame" /\ spaceship /\ spaceshipTargetZ # Null) =>
       LET tg == spaceshipTargetZ[1]
       IN /\ IF shipZ <= tg THEN shipZ <= shipZ' /\ shipZ' <= tg
                             ELSE tg <= shipZ' /\ shipZ' <= shipZ
          /\ (frameDelta' > 0 /\ shipZ # tg) => shipZ' # shipZ
          /\ spaceshipTargetZ' \in {Null, spaceshipTargetZ}
          /\ spaceshipTargetZ' = Null =>
                (~isBoosting /\ shipZ' = spaceshipOriginZ /\ tg = spaceshipOriginZ)
          /\ easeRun'.frames >= EaseFramesNeeded =>
                /\ shipZ' = tg
                /\ tg = IF isBoosting THEN spaceshipBoostZ ELSE spaceshipOriginZ
                /\ ~isBoosting => spaceshipTargetZ' = Null]_vars

\* a released ship has eased back over four frames and its target has been reset
ShipEasedBackToOrigin ==
  /\ lastEvent = "frame" /\ spaceship /\ ~isBoosting
  /\ easeRun.frames = EaseFramesNeeded /\ easeRun.target = Some(spaceshipOriginZ)
  /\ spaceshipTargetZ = Null /\ shipZ = spaceshipOriginZ

----------------------------------------------------------------------------
(* SpecFade: the fade-in of the logo on the ship's top, reached through    *)
(* the easter egg and the fly-in, with frames 5 s apart.  The browser      *)
(* keeps running the animation-frame callbacks that fadeInStep requests.   *)

InitFade == InitWith({5}, {<<>>}, {<<>>})

FrameFade == Frame(5000)

NextFade ==
  \/ MouseDown \/ MouseUp \/ TimerFire \/ ShipLoaded \/ FrameFade
  \/ LogoFetched \/ FadeFetched \/ FadeInStep

SpecFade == InitFade /\ [][NextFade]_vars /\ WF_vars(FadeInStep)

\* C28: each step of the fade-in adds 1/(60 * duration) to the fade counter; the
\* logo's opacity never decreases and never exceeds 0.98; once the counter has reached
\* 1 the opacity is 0.98, no further step runs and onComplete has run exactly once;
\* and a fade-in that has started gets there
FadeInTerminates ==
  /\ [][/\ (fade # Null /\ fade' # fade) => fade' = Some(fade[1] + 1)
        /\ (fade = Null /\ fade' # Null) => fade' = Some(1)
        /\ topLogoOpacity' # Null => topLogoOpacity'[1] <= topLogoMaxOpacity
        /\ topLogoOpacity # Null =>
              (topLogoOpacity' # Null /\ topLogoOpacity'[1] >= topLogoOpacity[1])
        /\ (fade' # Null /\ fade'[1] >= FadeSteps) =>
              (topLogoOpacity' = Some(topLogoMaxOpacity) /\ buttonMutations' = 1)
        /\ (fade' # Null /\ fade'[1] < FadeSteps) => buttonMutations' = 0
        /\ (fade # Null /\ fade[1] >= FadeSteps) => UNCHANGED fadeVars]_vars
  /\ (fade # Null) ~> (fade = Some(FadeSteps) /\ topLogoOpacity = Some(topLogoMaxOpacity))

\* the fade-in has run all its steps
FadeInCompleted ==
  /\ fade = Some(FadeSteps) /\ topLogoOpacity = Some(topLogoMaxOpacity)
  /\ fadeStarts = 1 /\ buttonMutations = 1

====
